---- MODULE Spec2Model ----
(***************************************************************************)
(* Model of the Trading-Edge data loader (scripts/dataset.py) and of the   *)
(* backtest simulator (scripts/backtest.py).                               *)
(*                                                                         *)
(* Conventions.  Probabilities are integer percentages (0.90 is 90) and    *)
(* prices are integers: floating-point rounding is not modelled.           *)
(* Python sequences are 0-based: At(s, i) reads the                        *)
(* element the code writes s[i].  None is modelled by the value the code   *)
(* could never store in the same field (NoTrend for current_trend).        *)
(***************************************************************************)
EXTENDS Integers, Sequences, FiniteSets, TLC

VARIABLES
    \* ---- TradingDataset (dataset.py) ----
    stride,             \* self.stride
    start_index,        \* self.start_index
    num_row_groups,     \* self.num_row_groups
    cached_row_group,   \* self._cached_row_group
    call,               \* the last call made on the dataset
    idx,                \* argument of the last __getitem__ call
    mapped,             \* pair returned by _get_row_group_and_offset in that call
    req,                \* (row_group, pos) the last get_features_for call was made with
    read_attempted,     \* whether that call asked the archive for a row group
    outcome,            \* how the last dataset call ended
    loader,             \* whether the TradingDataset has been constructed
    num_rows,           \* self.pf.metadata.num_rows
    cached_data,        \* self._cached_data: the row group whose columns it holds
    sample,             \* dictionary returned by the last get_features_for call
    \* ---- RowGroupSampler (dataset.py) and the loop that consumes it ----
    shuffle,            \* self.shuffle
    it_pc,              \* where the generator of __iter__ stands
    row_groups,         \* list row_groups of __iter__
    rg_i,               \* position of "for rg in row_groups" in that list
    offset,             \* loop variable offset
    pending,            \* indices yielded and not yet fetched from the dataset
    \* ---- histories ----
    yielded,            \* history: the indices yielded by the current iteration
    cache_at_iter,      \* history: the cached row group when the iteration began
    reads,              \* history: row groups read from the archive by recorded calls
    requests,           \* history: row groups asked of _load_row_group by recorded calls
    \* ---- backtest_day / TradingSystem (backtest.py) ----
    pc,                 \* where run_backtest / backtest_day stands
    row_group,          \* backtest_day's row_group argument
    prices,             \* dataset._cached_data['close'] of that day
    position,           \* system.position
    current_trend,      \* system.current_trend
    pos,                \* loop variable of backtest_day
    probs,              \* probability vector of the current loop iteration
    positions,          \* list positions
    pnls,               \* list pnls
    cumulative_pnl,     \* cumulative_pnl
    result,             \* dictionary returned by backtest_day
    error,              \* exception that ended backtest_day, if any
    record_inputs,      \* history: whether fed is being recorded
    fed                 \* history: the probability vectors passed to update so far

dataset_vars == <<stride, start_index, num_row_groups, cached_row_group,
                  call, idx, mapped, req, read_attempted, outcome,
                  loader, num_rows, cached_data, sample>>

sampler_vars == <<shuffle, it_pc, row_groups, rg_i, offset, pending,
                  yielded, cache_at_iter>>

hist_vars == <<reads, requests>>

backtest_vars == <<pc, row_group, prices, position, current_trend, pos,
                   probs, positions, pnls, cumulative_pnl, result, error,
                   record_inputs, fed>>

vars == <<dataset_vars, backtest_vars, sampler_vars, hist_vars>>

----------------------------------------------------------------------------
(* Bounds of the model *)

MaxBars == 3          \* longest day backtested with every model output
MaxLongBars == 4      \* longest day backtested with the directional outputs only
MaxRowGroups == 2     \* row groups in the parquet file
MaxStride == 5        \* strides 1..MaxStride, and bars_per_day \div 1..MaxStride
MaxStart == 2         \* start indices within MaxStart of either end of the day
MaxIdx == 2           \* requested indices within MaxIdx of 0 and of every day boundary
MaxEnum == 12         \* largest dataset length whose index set is enumerated
MaxSamplerDays == 3   \* days of the files the sampler is run over
MaxWindows == 3       \* largest windows_per_day of the loaders the sampler is run over
MaxBatch == 2         \* indices the consuming loop takes before it fetches them
MaxRequests == 4      \* recorded requests made of _load_row_group

PriceValues == {99, 100, 101}
ProbLevels == {50, 85, 90, 95}

----------------------------------------------------------------------------
(* Helpers for Python sequences *)

At(s, i) == s[i + 1]

Abs(x) == IF x < 0 THEN -x ELSE x

SeqsUpTo(S, n) == UNION {[1..k -> S] : k \in 0..n}

----------------------------------------------------------------------------
(* dataset.py: TradingDataset *)

\* self.bars_per_day = 23400
bars_per_day == 23400

\* self._cached_row_group = -1
NoRowGroup == -1

windows_per_day_NoStart == bars_per_day \div stride

\* self.windows_per_day = (self.bars_per_day - start_index) // stride
windows_per_day == (bars_per_day - start_index) \div stride

\* __len__
DatasetLen == num_row_groups * windows_per_day

get_row_group_and_offset_NoStride(i) ==
    <<i \div windows_per_day, start_index + (i % windows_per_day)>>

\* _get_row_group_and_offset(idx), for windows_per_day # 0
\* (// and % by 0 raise ZeroDivisionError: see GetItem)
get_row_group_and_offset(i) ==
    <<i \div windows_per_day, start_index + (i % windows_per_day) * stride>>

\* window_size: int = 60
window_size == 60

\* max_1m_bars = 60
max_1m_bars == 60

\* max_5m_bars = 78
max_5m_bars == 78

\* a row of np.zeros((..., 3)) that no assignment has written
ZeroRow == -1

Min(a, b) == IF a < b THEN a ELSE b

Max(a, b) == IF a > b THEN a ELSE b

\* data[column][a:b] for 0 <= a <= b <= len: a row taken from the cached day
\* is named by its index in the day
ColumnSlice(a, b) == [k \in 1..(b - a) |-> a + k - 1]

\* np.arange(first, stop, step)
Arange(first, stop, step) ==
    [k \in 1..(IF stop > first THEN (stop - first + step - 1) \div step ELSE 0) |->
        first + (k - 1) * step]

LastN_First(s, n) == SubSeq(s, 1, n)

\* s[-n:]  (s[-0:] is the whole of s)
LastN(s, n) == IF n = 0 THEN s ELSE SubSeq(s, Len(s) - n + 1, Len(s))

\* features = np.zeros((len, 3)); features[start:, c] = values
AssignFrom(len, start, values) ==
    [k \in 1..len |-> IF k <= start THEN ZeroRow ELSE values[k - start]]

features_1s_LeftAligned(p) ==
    [k \in 1..window_size |->
        IF k <= Min(p + 1, window_size) THEN Max(0, p + 1 - window_size) + k - 1
        ELSE ZeroRow]

\* features_1s of get_features_for
features_1s(p) ==
    LET available == Min(p + 1, window_size)
        start_idx == Max(0, p + 1 - window_size)
        start_pad == window_size - available
    IN  AssignFrom(window_size, start_pad, ColumnSlice(start_idx, p + 1))

boundary_indices_NoPartial(first, step, p) == Arange(first, p + 1, step)

boundary_indices_AlwaysPartial(first, step, p) ==
    Append(Arange(first, p + 1, step), p)

\* all_1m_indices / all_5m_indices: np.arange(first, pos + 1, step), with pos
\* appended when the list is empty or does not end with pos
boundary_indices(first, step, p) ==
    LET all == Arange(first, p + 1, step)
    IN  IF Len(all) = 0 \/ all[Len(all)] # p THEN Append(all, p) ELSE all

\* features_1m / features_5m of get_features_for
strided_features(all_indices, max_bars) ==
    LET n == Min(Len(all_indices), max_bars)
    IN  AssignFrom(max_bars, max_bars - n, LastN(all_indices, n))

features_1m(p) == strided_features(boundary_indices(59, 60, p), max_1m_bars)

features_5m(p) == strided_features(boundary_indices(299, 300, p), max_5m_bars)

\* no dictionary returned
NoSample == [day |-> NoRowGroup, pos |-> ZeroRow]

\* the dictionary get_features_for returns, named by the cached day and the
\* position it is cut from: its entries are features_1s(pos), features_1m(pos),
\* features_5m(pos) and the labels of row pos of that day
Sample(day, p) == [day |-> day, pos |-> p]

load_row_group_NoCache(rg) ==
    IF rg \in 0..(num_row_groups - 1)
    THEN [outcome |-> "ok", read |-> TRUE, cached |-> rg, data |-> rg]
    ELSE [outcome |-> "ReadError", read |-> TRUE,
          cached |-> cached_row_group, data |-> cached_data]

load_row_group_KeepFirst(rg) ==
    IF cached_row_group # NoRowGroup
    THEN [outcome |-> "ok", read |-> FALSE,
          cached |-> cached_row_group, data |-> cached_data]
    ELSE load_row_group_NoCache(rg)

load_row_group_StaleData(rg) ==
    IF cached_row_group # rg /\ rg \in 0..(num_row_groups - 1)
    THEN [outcome |-> "ok", read |-> TRUE, cached |-> rg,
          data |-> IF cached_data = NoRowGroup THEN rg ELSE cached_data]
    ELSE load_row_group_NoCache(rg)

\* _load_row_group(rg): the archive is asked for the row group unless it is
\* the cached one; _cached_data and then _cached_row_group are replaced by what
\* was read.  The archive raises for a row group the file does not have, and
\* the cache is then left as it was.
load_row_group(rg) ==
    IF cached_row_group # rg
    THEN IF rg \in 0..(num_row_groups - 1)
         THEN [outcome |-> "ok", read |-> TRUE, cached |-> rg, data |-> rg]
         ELSE [outcome |-> "ReadError", read |-> TRUE,
               cached |-> cached_row_group, data |-> cached_data]
    ELSE [outcome |-> "ok", read |-> FALSE,
          cached |-> cached_row_group, data |-> cached_data]

FeaturesFor_NoAssert(rg, p) == load_row_group(rg)

\* get_features_for(rg, p) up to the point where the windows are cut: the
\* assertion on pos, then _load_row_group(rg), then data = self._cached_data,
\* which cannot be subscripted while it is None.
FeaturesFor(rg, p) ==
    IF ~(0 <= p /\ p < bars_per_day)
    THEN [outcome |-> "AssertionError", read |-> FALSE,
          cached |-> cached_row_group, data |-> cached_data]
    ELSE LET l == load_row_group(rg)
         IN  IF l.outcome = "ok" /\ l.data = NoRowGroup
             THEN [l EXCEPT !.outcome = "TypeError"]
             ELSE l

\* the cache and the returned dictionary after get_features_for(rg, p) went
\* through FeaturesFor with result f: _cached_data is replaced together with
\* _cached_row_group, the windows are cut from _cached_data
AfterFeaturesFor(f, p) ==
    /\ read_attempted' = f.read
    /\ cached_row_group' = f.cached
    /\ cached_data' = f.data
    /\ sample' = IF f.outcome = "ok" THEN Sample(f.data, p) ELSE NoSample
    /\ outcome' = f.outcome

\* dataset.get_features_for(rg, p), called directly (backtest.py, analyze.py)
GetFeaturesForCall(rg, p) ==
    /\ pc = "idle"
    /\ loader = "ready"
    /\ call' = "get_features_for"
    /\ idx' = idx
    /\ mapped' = << >>
    /\ req' = <<rg, p>>
    /\ AfterFeaturesFor(FeaturesFor(rg, p), p)
    /\ UNCHANGED <<stride, start_index, num_row_groups, loader, num_rows, backtest_vars>>

GetFeaturesFor(rg, p) ==
    /\ GetFeaturesForCall(rg, p)
    /\ UNCHANGED <<sampler_vars, hist_vars>>

\* dataset[i]: __getitem__
GetItemCall(i) ==
    /\ pc = "idle"
    /\ loader = "ready"
    /\ call' = "getitem"
    /\ idx' = i
    /\ IF windows_per_day = 0
       THEN /\ mapped' = << >>
            /\ req' = << >>
            /\ read_attempted' = FALSE
            /\ outcome' = "ZeroDivisionError"
            /\ sample' = NoSample
            /\ UNCHANGED <<cached_row_group, cached_data>>
       ELSE LET m == get_row_group_and_offset(i)
            IN  /\ mapped' = m
                /\ req' = m
                /\ AfterFeaturesFor(FeaturesFor(m[1], m[2]), m[2])
    /\ UNCHANGED <<stride, start_index, num_row_groups, loader, num_rows, backtest_vars>>

GetItem(i) ==
    /\ GetItemCall(i)
    /\ UNCHANGED <<sampler_vars, hist_vars>>

----------------------------------------------------------------------------
(* backtest.py: TradingSystem *)

\* TREND_POSITION = {0: 1, 1: 1, 2: 1, 3: 0, 4: -1, 5: -1, 6: -1}
TREND_POSITION ==
    (0 :> 1) @@ (1 :> 1) @@ (2 :> 1) @@ (3 :> 0) @@ (4 :> -1) @@ (5 :> -1) @@ (6 :> -1)

\* TradingSystem(entry_threshold=0.90), in percent
entry_threshold == 90

\* self.current_trend = None
NoTrend == -1

\* probs.max()
MaxProb(p) == CHOOSE m \in {p[i] : i \in 1..Len(p)} : \A i \in 1..Len(p) : p[i] <= m

\* probs.argmax(): the first index holding the maximum
ArgMax(p) ==
    (CHOOSE i \in 1..Len(p) :
        /\ p[i] = MaxProb(p)
        /\ \A j \in 1..(i - 1) : p[j] # MaxProb(p)) - 1

ShouldCommit_Strict(max_prob, max_trend, trend) ==
    max_prob > entry_threshold /\ max_trend # trend

ShouldCommit_NoGate(max_prob, max_trend, trend) ==
    max_trend # trend

\* the condition of update's if statement
ShouldCommit(max_prob, max_trend, trend) ==
    max_prob >= entry_threshold /\ max_trend # trend

MappedPosition_Inverted(t) == 0 - TREND_POSITION[t]

\* TREND_POSITION[max_trend]
MappedPosition(t) == TREND_POSITION[t]

update_ExitBelowThreshold(sys_position, sys_trend, p) ==
    IF Len(p) = 0
    THEN [raised |-> "ValueError", position |-> sys_position, current_trend |-> sys_trend]
    ELSE IF MaxProb(p) < entry_threshold
    THEN [raised |-> "", position |-> 0, current_trend |-> sys_trend]
    ELSE IF ArgMax(p) = sys_trend
    THEN [raised |-> "", position |-> sys_position, current_trend |-> sys_trend]
    ELSE IF ArgMax(p) \in DOMAIN TREND_POSITION
    THEN [raised |-> "", position |-> MappedPosition(ArgMax(p)),
          current_trend |-> ArgMax(p)]
    ELSE [raised |-> "KeyError", position |-> sys_position, current_trend |-> ArgMax(p)]

\* TradingSystem.update on a system whose fields are (sys_position, sys_trend).
\* raised names the exception that leaves update, "" when it returns;
\* position and current_trend are the fields when update is left.
\*   probs.max() of an empty array raises ValueError;
\*   current_trend is assigned before TREND_POSITION is indexed, so a class
\*   outside the dictionary raises KeyError with current_trend already set.
update(sys_position, sys_trend, p) ==
    IF Len(p) = 0
    THEN [raised |-> "ValueError", position |-> sys_position, current_trend |-> sys_trend]
    ELSE LET max_prob == MaxProb(p)
             max_trend == ArgMax(p)
         IN  IF ShouldCommit(max_prob, max_trend, sys_trend)
             THEN IF max_trend \in DOMAIN TREND_POSITION
                  THEN [raised |-> "", position |-> MappedPosition(max_trend),
                        current_trend |-> max_trend]
                  ELSE [raised |-> "KeyError", position |-> sys_position,
                        current_trend |-> max_trend]
             ELSE [raised |-> "", position |-> sys_position, current_trend |-> sys_trend]

----------------------------------------------------------------------------
(* backtest.py: backtest_day *)

PnlStep_Lagged(cum, p_position, p_prices, p_pos) ==
    IF p_pos >= 1 /\ p_pos < Len(p_prices)
    THEN cum + p_position * (At(p_prices, p_pos) - At(p_prices, p_pos - 1))
    ELSE cum

\* if pos + 1 < len(prices): cumulative_pnl += position * (prices[pos + 1] - prices[pos])
PnlStep(cum, p_position, p_prices, p_pos) ==
    IF p_pos + 1 < Len(p_prices)
    THEN cum + p_position * (At(p_prices, p_pos + 1) - At(p_prices, p_pos))
    ELSE cum

\* np.diff(positions)
Diff(s) == [i \in 1..(IF Len(s) = 0 THEN 0 ELSE Len(s) - 1) |-> s[i + 1] - s[i]]

RECURSIVE SumSeq(_)
SumSeq(s) == IF Len(s) = 0 THEN 0 ELSE s[1] + SumSeq(Tail(s))

NumTrades_Magnitude(p_positions) ==
    SumSeq([i \in DOMAIN Diff(p_positions) |-> Abs(Diff(p_positions)[i])])

NumTrades_FromFlat(p_positions) ==
    SumSeq([i \in DOMAIN p_positions |->
              IF p_positions[i] # (IF i = 1 THEN 0 ELSE p_positions[i - 1]) THEN 1 ELSE 0])

\* np.sum(np.abs(np.diff(positions)) > 0)
NumTrades(p_positions) ==
    SumSeq([i \in DOMAIN Diff(p_positions) |->
              IF Abs(Diff(p_positions)[i]) > 0 THEN 1 ELSE 0])

\* Probability vectors the external model can hand back: a peak of height p at
\* class c, the rest of the mass on the next class (so height 50 is a tie).
Peaked(len, c, p) ==
    [i \in 1..len |-> IF i = c + 1 THEN p
                      ELSE IF i = ((c + 1) % len) + 1 THEN 100 - p
                      ELSE 0]

WellFormedProbs == {Peaked(7, c, p) : c \in 0..6, p \in ProbLevels}

\* Vectors of the wrong length: too short, too long, empty.
MalformedProbs ==
    {Peaked(3, 0, 95), Peaked(3, 2, 85), Peaked(8, 7, 95), Peaked(8, 7, 85), << >>}

ModelOutputs == WellFormedProbs \cup MalformedProbs

NoResult == [positions |-> << >>, pnls |-> << >>, final_pnl |-> 0, num_trades |-> 0]

FreshSystem_Reused == [position |-> position, current_trend |-> current_trend]

\* TradingSystem(entry_threshold=0.90): TradingSystem.__init__
FreshSystem == [position |-> 0, current_trend |-> NoTrend]

\* backtest_day up to its loop: a new TradingSystem, _load_row_group(rg), the
\* day's close column, empty lists and a running total of zero.  A row group
\* the file does not have makes the archive raise.
BacktestDay(rg, p_prices) ==
    /\ pc = "idle"
    /\ loader = "ready"
    /\ row_group' = rg
    /\ position' = FreshSystem.position
    /\ current_trend' = FreshSystem.current_trend
    /\ pos' = 0
    /\ positions' = << >>
    /\ pnls' = << >>
    /\ cumulative_pnl' = 0
    /\ fed' = << >>
    /\ LET l == load_row_group(rg)
       IN  /\ call' = "load_row_group"
           /\ req' = <<rg>>
           /\ read_attempted' = l.read
           /\ cached_row_group' = l.cached
           /\ cached_data' = l.data
           /\ outcome' = l.outcome
           /\ IF l.outcome = "ok"
              THEN /\ prices' = p_prices
                   /\ pc' = "loop"
                   /\ error' = ""
              ELSE /\ prices' = << >>
                   /\ pc' = "aborted"
                   /\ error' = l.outcome
    /\ UNCHANGED <<stride, start_index, num_row_groups, idx, mapped, loader,
                   num_rows, sample, probs, result, record_inputs,
                   sampler_vars, hist_vars>>

\* First half of an iteration of "for pos in range(len(prices))": the sample of
\* (row_group, pos) is built (the row group is the cached one, pos is within
\* the day) and the model is asked for its probabilities: p, whatever vector
\* the model returns.
Predict(p) ==
    /\ pc = "loop"
    /\ pos < Len(prices)
    /\ probs' = p
    /\ pc' = "predicted"
    /\ UNCHANGED <<dataset_vars, row_group, prices, position, current_trend, pos,
                   positions, pnls, cumulative_pnl, result, error, record_inputs, fed,
                   sampler_vars, hist_vars>>

\* Second half of the iteration: the system is updated with probs, the position
\* appended, the PnL of [pos, pos + 1) accrued and appended.  An exception
\* leaving update ends backtest_day.  probs is not read again: it is cleared.
Update ==
    /\ pc = "predicted"
    /\ LET u == update(position, current_trend, probs)
       IN  /\ fed' = IF record_inputs THEN Append(fed, probs) ELSE fed
           /\ position' = u.position
           /\ current_trend' = u.current_trend
           /\ IF u.raised = ""
              THEN /\ positions' = Append(positions, u.position)
                   /\ cumulative_pnl' = PnlStep(cumulative_pnl, u.position, prices, pos)
                   /\ pnls' = Append(pnls, PnlStep(cumulative_pnl, u.position, prices, pos))
                   /\ pos' = pos + 1
                   /\ pc' = "loop"
                   /\ error' = error
              ELSE /\ pc' = "aborted"
                   /\ error' = u.raised
                   /\ UNCHANGED <<positions, cumulative_pnl, pnls, pos>>
    /\ probs' = << >>
    /\ UNCHANGED <<dataset_vars, row_group, prices, result, record_inputs,
                   sampler_vars, hist_vars>>

\* The loop is over: backtest_day returns its dictionary.
Finish ==
    /\ pc = "loop"
    /\ pos = Len(prices)
    /\ pc' = "done"
    /\ result' = [positions |-> positions, pnls |-> pnls,
                  final_pnl |-> cumulative_pnl, num_trades |-> NumTrades(positions)]
    /\ UNCHANGED <<dataset_vars, row_group, prices, position, current_trend,
                   pos, probs, positions, pnls, cumulative_pnl, error, record_inputs, fed,
                   sampler_vars, hist_vars>>

\* run_backtest prints and plots the day's result and goes on to the next day:
\* the result is consumed and backtest_day's lists are gone.  Nothing clears
\* the day's TradingSystem or its running total; they stay as the day left
\* them until the next backtest_day builds its own.
Report ==
    /\ pc = "done"
    /\ pc' = "idle"
    /\ row_group' = -1
    /\ prices' = << >>
    /\ pos' = 0
    /\ positions' = << >>
    /\ pnls' = << >>
    /\ result' = NoResult
    /\ fed' = << >>
    /\ UNCHANGED <<dataset_vars, position, current_trend, cumulative_pnl, probs,
                   error, record_inputs, sampler_vars, hist_vars>>

----------------------------------------------------------------------------
(* Specifications of the backtest *)

\* the loader constructed over a file whose row count passed the check, its
\* cache empty, nothing returned yet
InitLoaderReady ==
    /\ loader = "ready"
    /\ num_rows = num_row_groups * bars_per_day
    /\ cached_data = NoRowGroup
    /\ sample = NoSample

\* no sampler iterated, nothing recorded
InitSamplerIdle ==
    /\ shuffle = FALSE
    /\ it_pc = "none"
    /\ row_groups = << >>
    /\ rg_i = 0
    /\ offset = 0
    /\ pending = << >>
    /\ yielded = << >>
    /\ cache_at_iter = NoRowGroup
    /\ reads = 0
    /\ requests = << >>

InitDatasetDefault ==
    /\ stride = 1
    /\ start_index = 0
    /\ num_row_groups = 1
    /\ cached_row_group = NoRowGroup
    /\ call = "none"
    /\ idx = 0
    /\ mapped = << >>
    /\ req = << >>
    /\ read_attempted = FALSE
    /\ outcome = "none"
    /\ InitLoaderReady

InitBacktestLocals ==
    /\ pc = "idle"
    /\ row_group = -1
    /\ prices = << >>
    /\ position = 0
    /\ current_trend = NoTrend
    /\ pos = 0
    /\ probs = << >>
    /\ positions = << >>
    /\ pnls = << >>
    /\ cumulative_pnl = 0
    /\ result = NoResult
    /\ error = ""
    /\ fed = << >>
    /\ InitSamplerIdle

InitBacktest ==
    /\ InitDatasetDefault
    /\ InitBacktestLocals
    /\ record_inputs = FALSE

NextBacktest ==
    \/ \E rg \in 0..num_row_groups, p_prices \in SeqsUpTo(PriceValues, MaxBars) :
           BacktestDay(rg, p_prices)
    \/ \E p \in ModelOutputs : Predict(p)
    \/ Update
    \/ Finish
    \/ Report

SpecBacktest == InitBacktest /\ [][NextBacktest]_vars

\* The same program with the history of the vectors fed to update recorded, on
\* the price series of the specification's hysteresis example and a shorter one.
RecordedDays == {<<100, 101, 99>>, <<99, 101>>}

RecordedOutputs == ModelOutputs \cup {Peaked(7, 4, 92)}

InitRecorded ==
    /\ InitDatasetDefault
    /\ InitBacktestLocals
    /\ record_inputs = TRUE

NextRecorded ==
    \/ \E rg \in 0..num_row_groups, p_prices \in RecordedDays : BacktestDay(rg, p_prices)
    \/ \E p \in RecordedOutputs : Predict(p)
    \/ Update
    \/ Finish
    \/ Report

SpecRecorded == InitRecorded /\ [][NextRecorded]_vars

\* Days with more positions, driven by one confident output per direction, one
\* unconfident output and one malformed output.
DirectionalOutputs ==
    {Peaked(7, 0, 95), Peaked(7, 3, 95), Peaked(7, 4, 95), Peaked(7, 1, 85), Peaked(3, 0, 95)}

NextLongDays ==
    \/ \E rg \in 0..num_row_groups, p_prices \in SeqsUpTo(PriceValues, MaxLongBars) :
           BacktestDay(rg, p_prices)
    \/ \E p \in DirectionalOutputs : Predict(p)
    \/ Update
    \/ Finish
    \/ Report

SpecLongDays == InitBacktest /\ [][NextLongDays]_vars

----------------------------------------------------------------------------
(* Properties of the backtest simulator *)

HysteresisExample == <<Peaked(7, 0, 95), Peaked(7, 0, 95), Peaked(7, 4, 92)>>

\* C1 (as stated): a fresh simulator with entry_threshold 0.90 fed 0.95 at class
\* 0, 0.95 at class 0, 0.92 at class 4 yields the positions Long, Long, Short
\* and a reported trade count of 2.
C1_HysteresisExampleTwoTrades ==
    (pc = "done" /\ fed = HysteresisExample)
        => (result.positions = <<1, 1, -1>> /\ result.num_trades = 2)

\* C1 (amended): the same run yields the positions Long, Long, Short and a
\* reported trade count of 1: the entry from the initial Flat is not in the
\* emitted sequence, only the change Long -> Short is counted.
C1_HysteresisExample ==
    (pc = "done" /\ fed = HysteresisExample)
        => (result.positions = <<1, 1, -1>> /\ result.num_trades = 1)

C1_Witness ==
    pc = "done" /\ fed = HysteresisExample /\ Len(result.positions) = 3

\* C2: in every update that returns, committed class and position become the
\* argmax class and its mapped position exactly when the maximum reaches the
\* entry threshold and the argmax class differs from the committed class; in
\* every other update both keep their values.
C2_TransitionRule ==
    [][(pc = "predicted" /\ pc' = "loop") =>
          IF MaxProb(probs) >= entry_threshold /\ ArgMax(probs) # current_trend
          THEN /\ current_trend' = ArgMax(probs)
               /\ position' = TREND_POSITION[ArgMax(probs)]
          ELSE /\ current_trend' = current_trend
               /\ position' = position]_vars

\* a commitment at exactly the threshold, a held position under a repeated
\* signal of the same class and under a signal below the threshold
C2_Witness ==
    /\ pc = "loop"
    /\ fed = <<Peaked(7, 5, 90), Peaked(7, 5, 95), Peaked(7, 0, 85)>>
    /\ positions = <<-1, -1, -1>>
    /\ current_trend = 5

\* C3: an update with a vector whose maximum is below the entry threshold
\* leaves the position as it was, whatever the class of the maximum, the
\* current position and the committed class; the position emitted for that
\* step is the held one.
C3_ThresholdGate ==
    [][(pc = "predicted" /\ Len(probs) > 0 /\ MaxProb(probs) < entry_threshold) =>
          /\ position' = position
          /\ pc' = "loop"
          /\ positions' = Append(positions, position)]_vars

C3_Witness ==
    /\ pc = "loop"
    /\ Len(fed) = 2
    /\ MaxProb(fed[1]) >= entry_threshold
    /\ MaxProb(fed[2]) = 85
    /\ ArgMax(fed[2]) = 4
    /\ positions = <<1, 1>>

RECURSIVE PnlUpTo(_, _, _)
\* sum over j <= i with j < n - 1 of positions[j] * (close[j + 1] - close[j])
PnlUpTo(p_positions, p_prices, i) ==
    IF i < 0 THEN 0
    ELSE PnlUpTo(p_positions, p_prices, i - 1)
         + (IF i < Len(p_prices) - 1
            THEN At(p_positions, i) * (At(p_prices, i + 1) - At(p_prices, i))
            ELSE 0)

\* C4: pnl_trace[i] is the sum over j <= i, j < n - 1, of positions[j] times
\* the close change from j to j + 1, positions[j] being the position decided at
\* step j; the last step accrues nothing, final_pnl is the last entry of the
\* trace, and prices 100, 101, 99, 99 with positions 1, 1, -1, -1 give -1.
C4_PnlAlignment ==
    /\ Len(pnls) = Len(positions)
    /\ \A i \in 0..(Len(pnls) - 1) : At(pnls, i) = PnlUpTo(positions, prices, i)
    /\ pc = "done" =>
          /\ result.pnls = pnls
          /\ Len(result.pnls) = Len(prices)
          /\ Len(prices) >= 1 => result.final_pnl = At(result.pnls, Len(prices) - 1)
          /\ Len(prices) >= 2 =>
                At(result.pnls, Len(prices) - 1) = At(result.pnls, Len(prices) - 2)
          /\ (prices = <<100, 101, 99, 99>> /\ result.positions = <<1, 1, -1, -1>>)
                => result.final_pnl = -1

C4_Witness ==
    /\ pc = "done"
    /\ prices = <<100, 101, 99, 99>>
    /\ result.positions = <<1, 1, -1, -1>>
    /\ result.pnls = <<1, -1, -1, -1>>

\* C5: the reported trade count is the number of indices i in 1..n-1 with
\* positions[i] # positions[i - 1]; a change Long -> Short counts once.
C5_TradeCount ==
    pc = "done" =>
        result.num_trades =
            Cardinality({i \in 1..(Len(result.positions) - 1) :
                            At(result.positions, i) # At(result.positions, i - 1)})

C5_Witness ==
    /\ pc = "done"
    /\ result.positions = <<1, -1, 0>>
    /\ result.num_trades = 2

\* C6: an update with a vector whose length is not 7 is rejected: position and
\* committed class stay as they were and the day's simulation aborts.
C6_WrongLengthRejected ==
    [][(pc = "predicted" /\ Len(probs) # 7) =>
          /\ pc' = "aborted"
          /\ position' = position
          /\ current_trend' = current_trend]_vars

\* C7: while the simulator is live (every update so far has returned), the
\* position is one of -1, 0, +1, it is Flat while no class is committed, and it
\* is the mapped position of the committed class otherwise (0, 1, 2 -> +1;
\* 3 -> 0; 4, 5, 6 -> -1).
C7_PositionOfCommittedClass ==
    pc # "aborted" =>
        /\ position \in {-1, 0, 1}
        /\ current_trend = NoTrend => position = 0
        /\ current_trend # NoTrend =>
              /\ current_trend \in 0..6
              /\ position = (IF current_trend \in {0, 1, 2} THEN 1
                             ELSE IF current_trend = 3 THEN 0
                             ELSE -1)

C7_Witness ==
    /\ pc = "loop"
    /\ Len(positions) = 3
    /\ positions = <<1, 0, -1>>
    /\ current_trend = 6

----------------------------------------------------------------------------
(* Specification of the data loader *)

Strides == (1..MaxStride) \cup {bars_per_day \div k : k \in 1..MaxStride}
               \cup {bars_per_day + 1}

StartIndices == (0..MaxStart) \cup {bars_per_day - 1 - k : k \in 0..MaxStart}

\* Indices asked of the dataset: near 0 and near every multiple of
\* windows_per_day up to the length of the dataset and just beyond it.
IdxInputs ==
    (0..MaxIdx) \cup
    UNION {{i \in (d * windows_per_day - MaxIdx)..(d * windows_per_day + MaxIdx) : i >= 0} :
             d \in 1..num_row_groups}

PosInputs == (-1..MaxIdx) \cup ((bars_per_day - 1 - MaxIdx)..bars_per_day)

InitDataset ==
    /\ stride \in Strides
    /\ start_index \in StartIndices
    /\ num_row_groups \in 1..MaxRowGroups
    /\ cached_row_group = NoRowGroup
    /\ call = "none"
    /\ idx = 0
    /\ mapped = << >>
    /\ req = << >>
    /\ read_attempted = FALSE
    /\ outcome = "none"
    /\ InitLoaderReady
    /\ InitBacktestLocals
    /\ record_inputs = FALSE

NextDataset ==
    \/ \E i \in IdxInputs : GetItem(i)
    \/ \E rg \in 0..num_row_groups, p \in PosInputs : GetFeaturesFor(rg, p)

SpecDataset == InitDataset /\ [][NextDataset]_vars

----------------------------------------------------------------------------
(* Properties of the index mapping *)

\* C8: for a global index in [0, total_samples) the mapping returns
\* day = index div windows_per_day, in [0, partition_count), and
\* position = start_offset + (index mod windows_per_day) * window_stride, in
\* [0, 23400), where windows_per_day = (23400 - start_offset) div window_stride.
C8_IndexMappingInRange ==
    LET w == (23400 - start_index) \div stride
    IN  (call = "getitem" /\ idx < num_row_groups * w) =>
            /\ mapped = <<idx \div w, start_index + (idx % w) * stride>>
            /\ mapped[1] \in 0..(num_row_groups - 1)
            /\ mapped[2] \in 0..(23400 - 1)
            /\ req = mapped
            /\ outcome = "ok"

C8_Witness ==
    /\ call = "getitem"
    /\ idx < DatasetLen
    /\ start_index > 0
    /\ stride > 1
    /\ windows_per_day > 1
    /\ mapped = <<1, start_index + stride>>
    /\ outcome = "ok"

\* C9: the mapping is a bijection from [0, total_samples) onto the pairs
\* (day, start_offset + k * window_stride) with 0 <= day < partition_count and
\* 0 <= k < windows_per_day: every index lands in that set, no two indices
\* land on the same pair, every pair is hit.  Checked by enumeration for the
\* datasets of at most MaxEnum samples; for every requested valid index of any
\* dataset, the pair determines the index.
C9_IndexMappingBijection ==
    LET w == (23400 - start_index) \div stride
        n == num_row_groups * w
        T == {<<d, start_index + k * stride>> : d \in 0..(num_row_groups - 1), k \in 0..(w - 1)}
    IN  /\ n <= MaxEnum =>
              /\ \A i \in 0..(n - 1) : get_row_group_and_offset(i) \in T
              /\ \A i, j \in 0..(n - 1) :
                    i # j => get_row_group_and_offset(i) # get_row_group_and_offset(j)
              /\ \A t \in T : \E i \in 0..(n - 1) : get_row_group_and_offset(i) = t
        /\ (call = "getitem" /\ idx < n) =>
              /\ (mapped[2] - start_index) % stride = 0
              /\ (mapped[2] - start_index) \div stride < w
              /\ mapped[1] * w + (mapped[2] - start_index) \div stride = idx

C9_Witness ==
    /\ num_row_groups = 2
    /\ windows_per_day >= 3
    /\ DatasetLen <= MaxEnum
    /\ stride > 1
    /\ start_index > 0
    /\ idx = windows_per_day + 2
    /\ mapped = <<1, start_index + 2 * stride>>
    /\ outcome = "ok"

\* C10: resolving a global index >= total_samples fails in the index mapping
\* itself: no (day, position) pair is returned and no partition read is
\* attempted.
C10_OutOfRangeRejected ==
    (call = "getitem" /\ idx >= DatasetLen) =>
        /\ mapped = << >>
        /\ ~read_attempted
        /\ outcome # "ok"

\* ---------------------------------------------------------------------------
\* RowGroupSampler: one iteration, consumed by a loop that takes indices from
\* the generator and fetches them from the dataset in the order they came
\* (DataLoader with num_workers=0, train_gmlp.py / train_mixer_v3.py)
\* ---------------------------------------------------------------------------

Shuffles_WithReplacement(n) == [1..n -> 0..(n - 1)]

\* the orders np.random.shuffle can leave list(range(n)) in
Shuffles(n) ==
    {s \in [1..n -> 0..(n - 1)] : \A i, j \in 1..n : s[i] = s[j] => i = j}

\* list(range(n))
RangeList(n) == [k \in 1..n |-> k - 1]

SamplerIndex_BarsBase(rg, off) == rg * bars_per_day + off

\* base + offset, base = rg * self.windows_per_day
SamplerIndex(rg, off) == rg * windows_per_day + off

\* RowGroupSampler.__len__
SamplerLen == DatasetLen

\* iter(RowGroupSampler(dataset, shuffle=sh)): row_groups is built, and shuffled
\* into the order perm when sh
Iter(sh, perm) ==
    /\ pc = "idle"
    /\ loader = "ready"
    /\ it_pc \in {"none", "exhausted"}
    /\ pending = << >>
    /\ IF sh THEN perm \in Shuffles(num_row_groups) ELSE perm = RangeList(num_row_groups)
    /\ shuffle' = sh
    /\ row_groups' = perm
    /\ it_pc' = "running"
    /\ rg_i' = 0
    /\ offset' = 0
    /\ yielded' = << >>
    /\ cache_at_iter' = cached_row_group
    /\ reads' = 0
    /\ UNCHANGED <<dataset_vars, backtest_vars, pending, requests>>

\* next(it) reaching "yield base + offset"
Yield ==
    /\ it_pc = "running"
    /\ rg_i < Len(row_groups)
    /\ windows_per_day > 0
    /\ Len(pending) < MaxBatch
    /\ LET i == SamplerIndex(At(row_groups, rg_i), offset)
       IN  /\ yielded' = Append(yielded, i)
           /\ pending' = Append(pending, i)
    /\ IF offset + 1 < windows_per_day
       THEN /\ offset' = offset + 1
            /\ rg_i' = rg_i
       ELSE /\ offset' = 0
            /\ rg_i' = rg_i + 1
    /\ UNCHANGED <<dataset_vars, backtest_vars, shuffle, it_pc, row_groups,
                   cache_at_iter, hist_vars>>

\* next(it) running off the end of both loops: StopIteration
End ==
    /\ it_pc = "running"
    /\ rg_i = Len(row_groups) \/ windows_per_day <= 0
    /\ it_pc' = "exhausted"
    /\ UNCHANGED <<dataset_vars, backtest_vars, shuffle, row_groups, rg_i, offset,
                   pending, yielded, cache_at_iter, hist_vars>>

\* the consuming loop fetches dataset[i] for the oldest index it holds
Fetch ==
    /\ pending # << >>
    /\ GetItemCall(Head(pending))
    /\ pending' = Tail(pending)
    /\ reads' = reads + (IF read_attempted' THEN 1 ELSE 0)
    /\ UNCHANGED <<shuffle, it_pc, row_groups, rg_i, offset, yielded,
                   cache_at_iter, requests>>

\* strides and start indices that leave 0..MaxWindows windows per day
SamplerStrides == {bars_per_day \div k : k \in 1..MaxWindows}

SamplerStartIndices == {0, 1, bars_per_day}

InitSampler ==
    /\ stride \in SamplerStrides
    /\ start_index \in SamplerStartIndices
    /\ num_row_groups \in 1..MaxSamplerDays
    /\ cached_row_group = NoRowGroup
    /\ call = "none"
    /\ idx = 0
    /\ mapped = << >>
    /\ req = << >>
    /\ read_attempted = FALSE
    /\ outcome = "none"
    /\ InitLoaderReady
    /\ InitBacktestLocals
    /\ record_inputs = FALSE

NextSampler ==
    \/ \E sh \in BOOLEAN, perm \in Shuffles(num_row_groups) : Iter(sh, perm)
    \/ Yield
    \/ End
    \/ Fetch

SpecSampler == InitSampler /\ [][NextSampler]_vars

\* C11: when a sampler that does not shuffle is exhausted, what it yielded is
\* 0, 1, ..., total_samples - 1 in that order, as many indices as the sampler's
\* __len__ reports.
C11_UnshuffledOrder ==
    (it_pc = "exhausted" /\ ~shuffle) =>
        /\ yielded = [k \in 1..DatasetLen |-> k - 1]
        /\ Len(yielded) = SamplerLen

C11_Witness ==
    /\ it_pc = "exhausted"
    /\ ~shuffle
    /\ num_row_groups = MaxSamplerDays
    /\ windows_per_day = MaxWindows
    /\ Len(yielded) = MaxSamplerDays * MaxWindows

\* the k-th index (from 1) of an iteration that visits the days in the order
\* order, windows_per_day ascending indices per day
RunOfDays(order, k) ==
    At(order, (k - 1) \div windows_per_day) * windows_per_day
        + ((k - 1) % windows_per_day)

\* C12: when a shuffling sampler is exhausted, every index of
\* [0, total_samples) was yielded exactly once, and the yielded sequence is the
\* days' runs d*windows_per_day, ..., d*windows_per_day + windows_per_day - 1,
\* each ascending and whole, in the order of the permutation drawn.
C12_ShuffledRuns ==
    (it_pc = "exhausted" /\ shuffle) =>
        /\ Len(yielded) = DatasetLen
        /\ \A i \in 0..(DatasetLen - 1) :
              Cardinality({k \in 1..Len(yielded) : yielded[k] = i}) = 1
        /\ \A k \in 1..Len(yielded) : yielded[k] = RunOfDays(row_groups, k)
        /\ row_groups \in Shuffles(num_row_groups)

C12_Witness ==
    /\ it_pc = "exhausted"
    /\ shuffle
    /\ num_row_groups = 3
    /\ row_groups = <<2, 0, 1>>
    /\ windows_per_day = 2
    /\ yielded = <<4, 5, 0, 1, 2, 3>>

\* C14: when an iteration that began with an empty cache is exhausted and all
\* its indices have been fetched in the order yielded, the archive was read
\* once per day, for windows_per_day >= 1.
C14_OneReadPerDay ==
    (/\ it_pc = "exhausted"
     /\ pending = << >>
     /\ cache_at_iter = NoRowGroup
     /\ windows_per_day >= 1) => reads = num_row_groups

C14_Witness ==
    /\ it_pc = "exhausted"
    /\ pending = << >>
    /\ cache_at_iter = NoRowGroup
    /\ shuffle
    /\ row_groups = <<1, 2, 0>>
    /\ windows_per_day = 3
    /\ reads = 3

\* ---------------------------------------------------------------------------
\* The single-slot cache: _load_row_group called directly (backtest.py:37,
\* analyze.py), every request and every archive read recorded
\* ---------------------------------------------------------------------------

\* dataset._load_row_group(rg)
LoadRowGroup(rg) ==
    /\ pc = "idle"
    /\ loader = "ready"
    /\ Len(requests) < MaxRequests
    /\ LET l == load_row_group(rg)
       IN  /\ call' = "load_row_group"
           /\ req' = <<rg>>
           /\ read_attempted' = l.read
           /\ cached_row_group' = l.cached
           /\ cached_data' = l.data
           /\ outcome' = l.outcome
           /\ reads' = reads + (IF l.read THEN 1 ELSE 0)
    /\ requests' = Append(requests, rg)
    /\ UNCHANGED <<stride, start_index, num_row_groups, idx, mapped, loader,
                   num_rows, sample, backtest_vars, sampler_vars>>

\* row groups asked for: those of the file, and one on either side
RowGroupInputs == -1..num_row_groups

InitCache ==
    /\ stride = 1
    /\ start_index = 0
    /\ num_row_groups \in 1..MaxRowGroups
    /\ cached_row_group = NoRowGroup
    /\ call = "none"
    /\ idx = 0
    /\ mapped = << >>
    /\ req = << >>
    /\ read_attempted = FALSE
    /\ outcome = "none"
    /\ InitLoaderReady
    /\ InitBacktestLocals
    /\ record_inputs = FALSE

NextCache == \E rg \in RowGroupInputs : LoadRowGroup(rg)

SpecCache == InitCache /\ [][NextCache]_vars

\* the requests of s that meet a cache holding another day, or none
Misses(s) == Cardinality({k \in 1..Len(s) : k = 1 \/ s[k] # s[k - 1]})

\* C13: in every request for a day of the file, made after requests for days
\* of the file only, the archive is read exactly when the cached index is not
\* the requested day (or nothing is cached); afterwards the cached index and
\* the cached columns are the requested day's.  The reads so far are the
\* requests that differ from their predecessor, the first included: one for
\* a, a and three for a, b, a.
C13_SingleSlotCache ==
    [][(/\ requests' # requests
        /\ \A k \in 1..Len(requests') : requests'[k] \in 0..(num_row_groups - 1))
       => LET day == requests'[Len(requests')]
          IN  /\ read_attempted' <=>
                    (cached_row_group = NoRowGroup \/ cached_row_group # day)
              /\ cached_row_group' = day
              /\ cached_data' = day
              /\ reads' = Misses(requests')]_vars

C13_Witness ==
    /\ requests = <<0, 1, 0, 0>>
    /\ reads = 3
    /\ cached_row_group = 0
    /\ cached_data = 0
    /\ ~read_attempted

\* ---------------------------------------------------------------------------
\* TradingDataset.__init__ over files whose row count does or does not match,
\* and the calls made on the loader afterwards
\* ---------------------------------------------------------------------------

RowsMatch_AtLeast(n, rows) == rows >= n * bars_per_day

\* actual_rows == expected_rows, expected_rows = num_row_groups * bars_per_day
RowsMatch(n, rows) == rows = n * bars_per_day

\* TradingDataset(parquet_path, stride=stride, start_index=start_index): the
\* division of line 34 comes before the assertion on the row count; a raising
\* constructor leaves no instance
Construct ==
    /\ loader = "unconstructed"
    /\ call' = "init"
    /\ IF stride = 0
       THEN /\ loader' = "failed"
            /\ outcome' = "ZeroDivisionError"
       ELSE IF ~RowsMatch(num_row_groups, num_rows)
       THEN /\ loader' = "failed"
            /\ outcome' = "AssertionError"
       ELSE /\ loader' = "ready"
            /\ outcome' = "ok"
    /\ cached_row_group' = NoRowGroup
    /\ cached_data' = NoRowGroup
    /\ UNCHANGED <<stride, start_index, num_row_groups, num_rows, idx, mapped,
                   req, read_attempted, sample, backtest_vars, sampler_vars,
                   hist_vars>>

LoaderStrides == {0, 1, 2, bars_per_day}

\* pf.metadata.num_rows of files with n row groups: whole days, and rows or
\* days missing or in excess
RowCounts(n) ==
    {n * bars_per_day + d : d \in {-bars_per_day, -1, 0, 1, bars_per_day}} \cap Nat

LoaderIdxInputs == {0, 1, bars_per_day - 1, bars_per_day}

LoaderPosInputs == {-1, 0, bars_per_day - 1}

InitLoader ==
    /\ stride \in LoaderStrides
    /\ start_index \in {0, 1}
    /\ num_row_groups \in 0..MaxRowGroups
    /\ num_rows \in RowCounts(num_row_groups)
    /\ loader = "unconstructed"
    /\ cached_row_group = NoRowGroup
    /\ cached_data = NoRowGroup
    /\ sample = NoSample
    /\ call = "none"
    /\ idx = 0
    /\ mapped = << >>
    /\ req = << >>
    /\ read_attempted = FALSE
    /\ outcome = "none"
    /\ InitBacktestLocals
    /\ record_inputs = FALSE

NextLoader ==
    \/ Construct
    \/ \E i \in LoaderIdxInputs : GetItem(i)
    \/ \E rg \in 0..num_row_groups, p \in LoaderPosInputs : GetFeaturesFor(rg, p)

SpecLoader == InitLoader /\ [][NextLoader]_vars

\* C15: constructing the loader (stride >= 1) over a file whose row count is
\* not num_row_groups * 23400 raises the assertion error; the loader is then
\* never usable: no call is made on it, no row group is read or cached.  A
\* loader that was constructed does not check the row count again: its calls
\* raise the assertion error only for a position out of range.
C15_SizeMismatchAtConstruction ==
    /\ (loader # "unconstructed" /\ stride >= 1
            /\ num_rows # num_row_groups * bars_per_day)
        => /\ loader = "failed"
           /\ call = "init"
           /\ outcome = "AssertionError"
           /\ ~read_attempted
           /\ cached_row_group = NoRowGroup
           /\ cached_data = NoRowGroup
           /\ sample = NoSample
    /\ (loader = "ready" /\ call = "get_features_for" /\ outcome = "AssertionError")
        => req[2] \notin 0..(bars_per_day - 1)

C15_Witness ==
    /\ loader = "failed"
    /\ stride = 1
    /\ num_row_groups = 2
    /\ num_rows = 2 * bars_per_day + 1
    /\ outcome = "AssertionError"

\* C16: get_features_for with a position outside [0, 23400), negative or
\* >= 23400, raises the assertion error and returns no dictionary.
C16_PositionOutOfRange ==
    (call = "get_features_for" /\ req[2] \notin 0..(bars_per_day - 1))
        => /\ outcome = "AssertionError"
           /\ sample = NoSample

C16_Witness ==
    /\ call = "get_features_for"
    /\ req = <<0, -1>>
    /\ cached_row_group = 0
    /\ outcome = "AssertionError"
    /\ sample = NoSample

C16_WitnessAbove ==
    /\ call = "get_features_for"
    /\ req = <<0, bars_per_day>>
    /\ outcome = "AssertionError"

\* ---------------------------------------------------------------------------
\* The windows of get_features_for at every position of the day
\* ---------------------------------------------------------------------------

\* every position of the day, and one on either side
AllPositions == -1..bars_per_day

InitWindows ==
    /\ stride = 1
    /\ start_index = 0
    /\ num_row_groups \in 1..MaxRowGroups
    /\ cached_row_group = NoRowGroup
    /\ call = "none"
    /\ idx = 0
    /\ mapped = << >>
    /\ req = << >>
    /\ read_attempted = FALSE
    /\ outcome = "none"
    /\ InitLoaderReady
    /\ InitBacktestLocals
    /\ record_inputs = FALSE

\* the first call on a loader is made at any position, the calls after it at
\* the positions next to the ends of the day
NextWindows ==
    \/ /\ call = "none"
       /\ \E rg \in 0..(num_row_groups - 1), p \in AllPositions : GetFeaturesFor(rg, p)
    \/ \E rg \in 0..(num_row_groups - 1), p \in PosInputs : GetFeaturesFor(rg, p)

SpecWindows == InitWindows /\ [][NextWindows]_vars

\* a dictionary was returned by the last call, cut at position p
Returned(p) == outcome = "ok" /\ sample # NoSample /\ sample.pos = p

\* len rows of zeros
Zeros(len) == [k \in 1..len |-> ZeroRow]

\* C17: the dictionary returned for position 0 has, in each of the three
\* windows, one row taken from the day, the last one, from index 0; the 59
\* rows before it in the 1s and 1m windows and the 77 in the 5m window are zero.
C17_PositionZero ==
    Returned(0) =>
        /\ features_1s(sample.pos) = Zeros(59) \o <<0>>
        /\ features_1m(sample.pos) = Zeros(59) \o <<0>>
        /\ features_5m(sample.pos) = Zeros(77) \o <<0>>
        /\ boundary_indices(59, 60, sample.pos) = <<0>>
        /\ boundary_indices(299, 300, sample.pos) = <<0>>

C17_Witness ==
    /\ Returned(0)
    /\ call = "get_features_for"
    /\ read_attempted
    /\ sample.day = 0

\* C18: the dictionary returned for position 23399 has no zero row: the 1s
\* window is the indices 23340..23399, the 1m window the last 60 of the minute
\* boundaries 59, 119, ..., 23399, the last of them being the arange's own
\* entry (none appended), the 5m window all 78 boundaries 299, 599, ..., 23399.
C18_LastPosition ==
    Returned(bars_per_day - 1) =>
        /\ features_1s(sample.pos) = [k \in 1..60 |-> 23339 + k]
        /\ features_1m(sample.pos) = [k \in 1..60 |-> 23399 - 60 * (60 - k)]
        /\ features_5m(sample.pos) = [k \in 1..78 |-> 300 * k - 1]
        /\ boundary_indices(59, 60, sample.pos) = Arange(59, bars_per_day, 60)
        /\ Len(boundary_indices(59, 60, sample.pos)) = 390
        /\ Len(boundary_indices(299, 300, sample.pos)) = 78
        /\ \A k \in 1..60 : features_1s(sample.pos)[k] # ZeroRow
                              /\ features_1m(sample.pos)[k] # ZeroRow
        /\ \A k \in 1..78 : features_5m(sample.pos)[k] # ZeroRow

C18_Witness ==
    /\ Returned(bars_per_day - 1)
    /\ call = "get_features_for"
    /\ sample.day = 0
    /\ features_5m(sample.pos)[1] = 299

\* C20: for every position p of [0, 23400) the 1s window of the dictionary
\* returned has 60 rows, the last min(p+1, 60) of them the indices
\* max(0, p-59)..p in order, the rows before them zero.
C20_OneSecondWindow ==
    (outcome = "ok" /\ sample # NoSample) =>
        LET p == sample.pos
            w == features_1s(p)
            n == Min(p + 1, 60)
        IN  /\ p \in 0..(bars_per_day - 1)
            /\ Len(w) = 60
            /\ \A j \in 1..n : w[60 - n + j] = Max(0, p - 59) + j - 1
            /\ w[60] = p
            /\ \A k \in 1..(60 - n) : w[k] = ZeroRow

C20_Witness ==
    /\ Returned(30)
    /\ features_1s(sample.pos) = Zeros(29) \o [k \in 1..31 |-> k - 1]

C20_WitnessFull ==
    /\ Returned(12345)
    /\ features_1s(sample.pos) = [k \in 1..60 |-> 12285 + k]

\* s without its last element
Front(s) == SubSeq(s, 1, Len(s) - 1)

RECURSIVE FreshRun(_, _)
\* backtest_day's loop run on the close column p_prices with the model
\* outputs vs, from a TradingSystem as __init__ leaves it and a running total
\* of zero: update once per position, in order
FreshRun(p_prices, vs) ==
    IF vs = << >>
    THEN [position |-> 0, current_trend |-> NoTrend, cumulative_pnl |-> 0,
          positions |-> << >>, pnls |-> << >>]
    ELSE LET before == FreshRun(p_prices, Front(vs))
             u == update(before.position, before.current_trend, vs[Len(vs)])
             total == PnlStep(before.cumulative_pnl, u.position, p_prices, Len(vs) - 1)
         IN  [position |-> u.position, current_trend |-> u.current_trend,
              cumulative_pnl |-> total,
              positions |-> Append(before.positions, u.position),
              pnls |-> Append(before.pnls, total)]

\* C19: whatever was backtested before on the same loader, a day's backtest
\* is the run from position Flat, no committed class and a running total of
\* zero: between two updates the simulator has been updated once for each of
\* the positions 0..pos-1, in order, and positions and PnL trace are those of
\* the fresh run; the returned positions and PnL trace have one entry per
\* position of the day, and final PnL and trade count are the fresh run's.
C19_FreshPerDay ==
    /\ pc \in {"loop", "done"} =>
          /\ Len(fed) = pos
          /\ Len(positions) = pos
          /\ Len(pnls) = pos
          /\ pos <= Len(prices)
          /\ LET fresh == FreshRun(prices, fed)
             IN  /\ position = fresh.position
                 /\ current_trend = fresh.current_trend
                 /\ cumulative_pnl = fresh.cumulative_pnl
                 /\ positions = fresh.positions
                 /\ pnls = fresh.pnls
    /\ pc = "done" =>
          /\ Len(fed) = Len(prices)
          /\ Len(result.positions) = Len(prices)
          /\ Len(result.pnls) = Len(prices)
          /\ LET fresh == FreshRun(prices, fed)
             IN  /\ result.positions = fresh.positions
                 /\ result.pnls = fresh.pnls
                 /\ result.final_pnl = fresh.cumulative_pnl
                 /\ result.num_trades = NumTrades(fresh.positions)

\* a day backtested on a loader whose cache already held it (an earlier day
\* left it there), begun below the threshold and ended committed
C19_Witness ==
    /\ pc = "done"
    /\ call = "load_row_group"
    /\ ~read_attempted
    /\ prices = <<100, 101, 99>>
    /\ Len(fed) = 3
    /\ MaxProb(fed[1]) < entry_threshold
    /\ result.positions = <<0, 1, -1>>
    /\ result.pnls = <<0, -2, -2>>
    /\ result.num_trades = 2

\* the boundaries step-1, 2*step-1, ... up to p, then p itself unless p is
\* one of them
BoundariesWithTail(step, p) ==
    LET completed == [k \in 1..((p + 1) \div step) |-> k * step - 1]
    IN  IF (p + 1) % step = 0 THEN completed ELSE Append(completed, p)

\* window is list's last min(Len(list), slots) entries in order, set against
\* the end of slots rows, the rows before them zero
RightAligned(window, list, slots) ==
    LET n == Min(Len(list), slots)
    IN  /\ Len(window) = slots
        /\ \A j \in 1..n : window[slots - n + j] = list[Len(list) - n + j]
        /\ \A k \in 1..(slots - n) : window[k] = ZeroRow

\* C21: for every position p of [0, 23400) the index list of the 1m window
\* (step 60, 60 slots) and of the 5m window (step 300, 78 slots) is the
\* boundaries step-1, 2*step-1, ... <= p followed by p exactly when p is not a
\* boundary; the window holds the last min(len, slots) of them in order,
\* right-aligned, its last row from index p and the rows before them zero.
\* The 5m list never has more than 78 entries.
C21_StridedBoundaryWindows ==
    (outcome = "ok" /\ sample # NoSample) =>
        LET p == sample.pos
            list_1m == boundary_indices(59, 60, p)
            list_5m == boundary_indices(299, 300, p)
        IN  /\ list_1m = BoundariesWithTail(60, p)
            /\ list_5m = BoundariesWithTail(300, p)
            /\ RightAligned(features_1m(p), list_1m, 60)
            /\ RightAligned(features_5m(p), list_5m, 78)
            /\ features_1m(p)[60] = p
            /\ features_5m(p)[78] = p
            /\ Len(list_5m) <= 78

\* past the first hour, between two minute boundaries: 61 completed minutes
\* and the partial one, of which the first two are dropped
C21_Witness ==
    /\ Returned(3700)
    /\ Len(boundary_indices(59, 60, sample.pos)) = 62
    /\ features_1m(sample.pos)[1] = 179
    /\ features_1m(sample.pos)[59] = 3659
    /\ features_1m(sample.pos)[60] = 3700
    /\ features_5m(sample.pos)[65] = ZeroRow
    /\ features_5m(sample.pos)[66] = 299
    /\ features_5m(sample.pos)[78] = 3700

\* what get_features_for(rg, p) returns on a loader just constructed, its
\* cache empty: the row group is read, the dictionary is cut from it
FreshSample(rg, p) ==
    IF p \in 0..(bars_per_day - 1) /\ rg \in 0..(num_row_groups - 1)
    THEN [day |-> rg, pos |-> p]
    ELSE NoSample

\* C22: after any sequence of requests on one loader, by global index or by
\* day and position, in any order, the dictionary the last request returned
\* is the one a fresh loader returns for the same day and position (windows
\* and labels cut at the requested position of the requested day), and none
\* is returned where a fresh loader returns none; the cached columns are
\* always those of the cached index.
C22_CacheTransparency ==
    /\ cached_data = cached_row_group
    /\ (call \in {"getitem", "get_features_for"} /\ req # << >>) =>
          /\ sample = FreshSample(req[1], req[2])
          /\ sample # NoSample =>
                /\ outcome = "ok"
                /\ sample.day = req[1]
                /\ features_1s(sample.pos) = features_1s(req[2])
                /\ features_1m(sample.pos) = features_1m(req[2])
                /\ features_5m(sample.pos) = features_5m(req[2])
    /\ (call = "getitem" /\ req = << >>) => sample = NoSample

\* a request by global index served from the cache, for the second day
C22_Witness ==
    /\ call = "getitem"
    /\ outcome = "ok"
    /\ ~read_attempted
    /\ mapped[1] = 1
    /\ mapped[2] > 0
    /\ sample = [day |-> 1, pos |-> mapped[2]]
    /\ cached_row_group = 1

\* the steps of the run over vs at which the committed class changed
ClassChanges(p_prices, vs) ==
    {k \in 1..Len(vs) :
        FreshRun(p_prices, SubSeq(vs, 1, k)).current_trend
            # FreshRun(p_prices, SubSeq(vs, 1, k - 1)).current_trend}

\* C23: an update whose maximum reaches the entry threshold at a class that
\* is not the committed one but maps to the committed one's position replaces
\* the committed class, leaves the position as it is and adds nothing to the
\* trade count of the positions emitted so far; and the trade count of a
\* finished day is at most the number of steps at which the committed class
\* changed.
C23_SameDirectionRecommit ==
    [][/\ (/\ pc = "predicted"
           /\ pc' = "loop"
           /\ MaxProb(probs) >= entry_threshold
           /\ ArgMax(probs) \in DOMAIN TREND_POSITION
           /\ current_trend \in DOMAIN TREND_POSITION
           /\ ArgMax(probs) # current_trend
           /\ TREND_POSITION[ArgMax(probs)] = TREND_POSITION[current_trend])
          => /\ current_trend' = ArgMax(probs)
             /\ position' = position
             /\ positions' = Append(positions, position)
             /\ NumTrades(positions') = NumTrades(positions)
       /\ pc' = "done"
          => result'.num_trades <= Cardinality(ClassChanges(prices', fed'))]_vars

\* Long committed at class 0, recommitted at class 1 without a trade, then
\* reversed at class 4: three changes of class, one trade
C23_Witness ==
    /\ pc = "done"
    /\ fed = <<Peaked(7, 0, 95), Peaked(7, 1, 95), Peaked(7, 4, 95)>>
    /\ result.positions = <<1, 1, -1>>
    /\ result.num_trades = 1
    /\ current_trend = 4
    /\ Cardinality(ClassChanges(prices, fed)) = 3

====
